---- MODULE Spec2Model ----
(***************************************************************************)
(* Model of the WebRTC negotiation code of src/src/App.jsx: the App        *)
(* component's state, the createCall and answerCall handlers with their    *)
(* suspension points, the peer connection callbacks and the Firestore      *)
(* documents, sub-collections and snapshot listeners they use.             *)
(***************************************************************************)
EXTENDS Integers, Sequences, FiniteSets, TLC

(* ---------------------------------------------------------------- bounds *)
\* number of createCall / answerCall invocations that pass their guard
MaxSessions == 2
\* candidates one peer connection discovers before end-of-candidates
MaxCand == 2

\* mounted App components (browser tabs)
Apps == {"A", "B"}
\* values Math.floor(Math.random() * 1000000).toString() is drawn from
CallIds == {"1", "2"}
\* values of the callId state: '' initially, or an id
CallIdValues == CallIds \cup {""}
Sessions == 1..(MaxSessions + 1)

\* what RTCPeerConnection.getLocalStreams (legacy, not in the standard) does
\* in a browser: reports the streams of the senders (Chromium), reports only
\* the streams given to addStream, of which the code gives none (the legacy
\* WebKit API), or does not exist, so that calling it throws a TypeError
Platforms == {"senders", "addStreamOnly", "absent"}

VARIABLES
  db,            \* db.current is set, per app
  localStream,   \* localStream state, per app: 0 is null
  callId,        \* callId state, per app
  errorMessage,  \* errorMessage state, per app
  pcCurrent,     \* pc.current, per app: the session whose connection it holds, 0 is null
  platform,      \* the browser's getLocalStreams, per app
  nSess,         \* number of handler invocations that created a peer connection
  sess,          \* per invocation: the handler's closure, position and peer connection
  calls,         \* the documents artifacts/<appId>/public/data/calls/<id>
  cands,         \* the sub-collections .../calls/<id>/candidates, in arrival order
  scenario       \* what the users do: "any" clicks, or "oneCall": one Create Call, then answers
                 \* (there a candidate's addDoc may fail as well)

vars == <<db, localStream, callId, errorMessage, pcCurrent, platform, nSess, sess, calls, cands, scenario>>

\* the handler invocations a behaviour may hold
SessionLimit == IF scenario = "oneCall" THEN MaxSessions + 1 ELSE MaxSessions

\* the candidates a connection discovers
CandLimit == IF scenario = "oneCall" THEN MaxCand - 1 ELSE MaxCand

\* whether the addDoc of a candidate may be rejected by the channel
AddDocMayReject == scenario = "oneCall"

(* ------------------------------------------------------------- documents *)
\* a Call Record document: offer and answer hold the session that built the
\* description (0: field absent); ver counts the writes to the document
NoDoc == [exists |-> FALSE, offer |-> 0, answer |-> 0, ver |-> 0]

\* setDoc(ref, {offer}) : without merge the document is replaced
SetDocOffer(old, s) == [exists |-> TRUE, offer |-> s, answer |-> 0, ver |-> old.ver + 1]

\* a merge write that forgets the merge option replaces the document
SetDocAnswerNoMerge(old, s) == [exists |-> TRUE, offer |-> 0, answer |-> s, ver |-> old.ver + 1]

\* setDoc(ref, {answer}, {merge: true}) : the other fields are kept
SetDocAnswer(old, s) == [exists |-> TRUE, offer |-> old.offer, answer |-> s, ver |-> old.ver + 1]

(* -------------------------------------------------------------- sessions *)
NoSession ==
  [app |-> "", role |-> "none", pos |-> "idle",
   id |-> "",          \* newCallId (createCall) or callId (answerCall)
   cid |-> "",         \* callId as captured by the onicecandidate closure
   stream |-> 0,       \* localStream as captured by the closures
   tracks |-> FALSE,   \* the tracks of localStream were added to newPc
   localDesc |-> FALSE,\* newPc.localDescription is set
   srdCalls |-> 0,     \* setRemoteDescription invocations on newPc
   srdDone |-> 0,      \* setRemoteDescription invocations that have settled
   gathered |-> 0,     \* icecandidate events that carried a candidate
   published |-> 0,    \* candidate documents this session added
   read |-> "",        \* what getDocs held for the id: "absent" or "present"
   offer |-> 0,        \* the offer field of the document answerCall read
   err |-> "",         \* the error this invocation passed to setErrorMessage
   docSeen |-> -1,     \* version of the last document snapshot delivered
   candSeen |-> 0,     \* candidate documents already reported as added
   ice |-> << >>]      \* addIceCandidate invocations on newPc, in order

\* newPc.currentRemoteDescription is non-null once a setRemoteDescription settled
CurrentRemoteDescription(s) == sess[s].srdDone >= 1

\* the remote description of newPc as an addIceCandidate call finds it
RemoteState(s) ==
  IF sess[s].srdDone >= 1 THEN "set"
  ELSE IF sess[s].srdCalls > 0 THEN "pending" ELSE "none"

Init ==
  /\ db = [a \in Apps |-> FALSE]
  /\ localStream = [a \in Apps |-> 0]
  /\ callId = [a \in Apps |-> ""]
  /\ errorMessage = [a \in Apps |-> ""]
  /\ pcCurrent = [a \in Apps |-> 0]
  /\ platform \in [Apps -> Platforms]
  /\ nSess = 0
  /\ sess = [s \in Sessions |-> NoSession]
  /\ calls = [c \in CallIds |-> NoDoc]
  /\ cands = [c \in CallIds |-> << >>]
  /\ scenario = "any"

\* one call that is answered more than once: a single Create Call, every
\* other click an Answer Call, in browsers whose getLocalStreams reports the
\* senders' streams, each connection discovering one candidate, over a
\* channel that may reject the addDoc of a candidate
InitOneCall ==
  /\ db = [a \in Apps |-> FALSE]
  /\ localStream = [a \in Apps |-> 0]
  /\ callId = [a \in Apps |-> ""]
  /\ errorMessage = [a \in Apps |-> ""]
  /\ pcCurrent = [a \in Apps |-> 0]
  /\ platform = [a \in Apps |-> "senders"]
  /\ nSess = 0
  /\ sess = [s \in Sessions |-> NoSession]
  /\ calls = [c \in CallIds |-> NoDoc]
  /\ cands = [c \in CallIds |-> << >>]
  /\ scenario = "oneCall"

(* ------------------------------------------------------------ app events *)
\* setupFirebase, lines 40-68
SetupFirebase(a) ==
  /\ ~db[a]
  /\ db' = [db EXCEPT ![a] = TRUE]
  /\ UNCHANGED <<localStream, callId, errorMessage, pcCurrent, platform, nSess, sess, calls, cands, scenario>>

\* startCamera, lines 86-95: getUserMedia resolves with a stream or rejects
\* (the camera is started once per component)
StartCamera(a) ==
  /\ localStream[a] = 0
  /\ \/ /\ localStream' = [localStream EXCEPT ![a] = 1]
        /\ errorMessage' = [errorMessage EXCEPT ![a] = ""]
     \/ /\ errorMessage' = [errorMessage EXCEPT ![a] = "Could not access camera/mic"]
        /\ UNCHANGED localStream
  /\ UNCHANGED <<db, callId, pcCurrent, platform, nSess, sess, calls, cands, scenario>>

(* ------------------------------------------------- createPeerConnection *)
\* a createPeerConnection without the addTrack loop of lines 131-133
CreatePeerConnectionNoTracks(a, renderCallId, role, pos, id) ==
  [NoSession EXCEPT !.app = a, !.role = role, !.pos = pos, !.id = id,
                    !.cid = renderCallId, !.stream = localStream[a]]

\* createPeerConnection, lines 98-136: the new connection of a handler
\* invocation; its callbacks close over the callId and localStream of the
\* render the handler belongs to, and the tracks of localStream are added
CreatePeerConnection(a, renderCallId, role, pos, id) ==
  [NoSession EXCEPT !.app = a, !.role = role, !.pos = pos, !.id = id,
                    !.cid = renderCallId, !.stream = localStream[a], !.tracks = TRUE]

(* ------------------------------------------------------------ createCall *)
\* a guard that is checked only after setCallId(newCallId)
CreateCallRefusedAfterSetCallId(a) ==
  /\ ~db[a] \/ localStream[a] = 0
  /\ \E newCallId \in CallIds : callId' = [callId EXCEPT ![a] = newCallId]
  /\ errorMessage' = [errorMessage EXCEPT ![a] = "Please start your camera before creating a call."]
  /\ UNCHANGED <<db, localStream, pcCurrent, platform, nSess, sess, calls, cands, scenario>>

\* createCall, lines 140-143: the guard fails
CreateCallRefused(a) ==
  /\ ~db[a] \/ localStream[a] = 0
  /\ errorMessage' = [errorMessage EXCEPT ![a] = "Please start your camera before creating a call."]
  /\ UNCHANGED <<db, localStream, callId, pcCurrent, platform, nSess, sess, calls, cands, scenario>>

\* createCall, lines 145-157: up to the await of createOffer
CreateCall(a) ==
  /\ db[a] /\ localStream[a] # 0
  /\ nSess < SessionLimit
  /\ scenario = "oneCall" => nSess = 0
  /\ \E newCallId \in CallIds :
       /\ callId' = [callId EXCEPT ![a] = newCallId]
       /\ errorMessage' = [errorMessage EXCEPT ![a] = "Call created! Share this ID"]
       /\ nSess' = nSess + 1
       /\ pcCurrent' = [pcCurrent EXCEPT ![a] = nSess + 1]
       /\ sess' = [sess EXCEPT ![nSess + 1] = CreatePeerConnection(a, callId[a], "caller", "createOffer", newCallId)]
  /\ UNCHANGED <<db, localStream, platform, calls, cands, scenario>>

\* createCall, lines 157-158: createOffer resolves, setLocalDescription is awaited
CreateOfferResolved(s) ==
  /\ sess[s].role = "caller" /\ sess[s].pos = "createOffer"
  /\ sess' = [sess EXCEPT ![s].pos = "setLocalDescription"]
  /\ UNCHANGED <<db, localStream, callId, errorMessage, pcCurrent, platform, nSess, calls, cands, scenario>>

\* a handler that does not await setDoc: the listeners are registered while
\* the write is still in flight
SetLocalDescriptionResolvedNoAwait(s) ==
  /\ sess[s].pos = "setLocalDescription"
  /\ sess' = [sess EXCEPT ![s].pos = "watching", ![s].localDesc = TRUE]
  /\ UNCHANGED <<db, localStream, callId, errorMessage, pcCurrent, platform, nSess, calls, cands, scenario>>

\* lines 158-161 and 214-217: setLocalDescription resolves (candidate gathering
\* starts), setDoc is awaited
SetLocalDescriptionResolved(s) ==
  /\ sess[s].pos = "setLocalDescription"
  /\ sess' = [sess EXCEPT ![s].pos = "setDoc", ![s].localDesc = TRUE]
  /\ UNCHANGED <<db, localStream, callId, errorMessage, pcCurrent, platform, nSess, calls, cands, scenario>>

\* createCall, lines 161-185: the offer is written, then both listeners are
\* registered; or setDoc rejects: the await throws out of createCall, which
\* has no try/catch, so the rest of the handler does not run and nothing is
\* passed to setErrorMessage
CreateCallSetDocResolved(s) ==
  /\ sess[s].role = "caller" /\ sess[s].pos = "setDoc"
  /\ \/ /\ calls' = [calls EXCEPT ![sess[s].id] = SetDocOffer(@, s)]
        /\ sess' = [sess EXCEPT ![s].pos = "watching"]
     \/ /\ sess' = [sess EXCEPT ![s].pos = "rejected"]
        /\ UNCHANGED calls
  /\ UNCHANGED <<db, localStream, callId, errorMessage, pcCurrent, platform, nSess, cands, scenario>>

\* the document listener of createCall, lines 165-173: a snapshot is delivered
\* when the listener is registered and after each change of the document
CallSnapshot(s) ==
  /\ sess[s].role = "caller" /\ sess[s].pos = "watching"
  /\ calls[sess[s].id].ver # sess[s].docSeen
  /\ LET data == calls[sess[s].id]
         apply == data.answer # 0 /\ sess[s].localDesc /\ ~CurrentRemoteDescription(s)
     IN sess' = [sess EXCEPT ![s].docSeen = data.ver,
                             ![s].srdCalls = IF apply THEN @ + 1 ELSE @]
  /\ UNCHANGED <<db, localStream, callId, errorMessage, pcCurrent, platform, nSess, calls, cands, scenario>>

\* line 171: a setRemoteDescription(answer) of the initiator settles (the first
\* applies the answer, a later one is rejected in the stable state)
CallerSetRemoteDescriptionSettled(s) ==
  /\ sess[s].role = "caller"
  /\ sess[s].srdCalls > sess[s].srdDone
  /\ sess' = [sess EXCEPT ![s].srdDone = @ + 1]
  /\ UNCHANGED <<db, localStream, callId, errorMessage, pcCurrent, platform, nSess, calls, cands, scenario>>

(* ------------------------------------------------------------ answerCall *)
\* answerCall, lines 190-193: the guard fails
AnswerCallRefused(a) ==
  /\ ~db[a] \/ localStream[a] = 0 \/ callId[a] = ""
  /\ errorMessage' = [errorMessage EXCEPT ![a] = "Please start your camera and enter a Call ID to answer."]
  /\ UNCHANGED <<db, localStream, callId, pcCurrent, platform, nSess, sess, calls, cands, scenario>>

\* the call id input's onChange, line 299, then answerCall, lines 195-200, up
\* to the await of getDocs: the user enters an id v and clicks Answer Call,
\* and the handler of the render that holds callId = v runs
AnswerCall(a) ==
  /\ db[a] /\ localStream[a] # 0
  /\ nSess < SessionLimit
  /\ \E v \in CallIds :
       /\ callId' = [callId EXCEPT ![a] = v]
       /\ nSess' = nSess + 1
       /\ pcCurrent' = [pcCurrent EXCEPT ![a] = nSess + 1]
       /\ sess' = [sess EXCEPT ![nSess + 1] = CreatePeerConnection(a, v, "callee", "getDocs", v)]
  /\ UNCHANGED <<db, localStream, errorMessage, platform, calls, cands, scenario>>

\* a lookup that does not check what find returned
LookupUnchecked(d) == "found"

\* lines 201-203: docs.find(doc => doc.id === callId), then the check of the offer
AnswerLookup(d) ==
  IF ~d.exists THEN "norecord"
  ELSE IF d.offer = 0 THEN "nooffer"
  ELSE "found"

\* answerCall, lines 200-210: getDocs resolves; not found, or
\* setRemoteDescription(offer) is awaited; or getDocs rejects and the await
\* throws out of answerCall
GetDocsResolved(s) ==
  /\ sess[s].role = "callee" /\ sess[s].pos = "getDocs"
  /\ LET doc == calls[sess[s].id]
         got == IF doc.exists THEN "present" ELSE "absent"
         found == AnswerLookup(doc)
     IN
       \/ IF found # "found"
          THEN /\ errorMessage' = [errorMessage EXCEPT ![sess[s].app] = "Call ID not found or call has no offer."]
               /\ sess' = [sess EXCEPT ![s].pos = "notfound", ![s].read = got, ![s].offer = doc.offer,
                                       ![s].err = "Call ID not found or call has no offer."]
          ELSE /\ sess' = [sess EXCEPT ![s].pos = "setRemoteDescription", ![s].read = got,
                                       ![s].offer = doc.offer,
                                       ![s].srdCalls = @ + 1]
               /\ UNCHANGED errorMessage
       \/ /\ sess' = [sess EXCEPT ![s].pos = "rejected"]
          /\ UNCHANGED errorMessage
  /\ UNCHANGED <<db, localStream, callId, pcCurrent, platform, nSess, calls, cands, scenario>>

\* answerCall, lines 210-213: setRemoteDescription resolves, createAnswer is awaited
AnswerSetRemoteDescriptionResolved(s) ==
  /\ sess[s].role = "callee" /\ sess[s].pos = "setRemoteDescription"
  /\ sess' = [sess EXCEPT ![s].pos = "createAnswer", ![s].srdDone = @ + 1]
  /\ UNCHANGED <<db, localStream, callId, errorMessage, pcCurrent, platform, nSess, calls, cands, scenario>>

\* answerCall, lines 213-214: createAnswer resolves, setLocalDescription is awaited
CreateAnswerResolved(s) ==
  /\ sess[s].role = "callee" /\ sess[s].pos = "createAnswer"
  /\ sess' = [sess EXCEPT ![s].pos = "setLocalDescription"]
  /\ UNCHANGED <<db, localStream, callId, errorMessage, pcCurrent, platform, nSess, calls, cands, scenario>>

\* answerCall, lines 217-231: the answer is merged into the document, then the
\* candidate listener is registered; or setDoc rejects and the await throws
\* out of answerCall
AnswerCallSetDocResolved(s) ==
  /\ sess[s].role = "callee" /\ sess[s].pos = "setDoc"
  /\ \/ /\ calls' = [calls EXCEPT ![sess[s].id] = SetDocAnswer(@, s)]
        /\ errorMessage' = [errorMessage EXCEPT ![sess[s].app] = "Answer sent. You should see a stream shortly."]
        /\ sess' = [sess EXCEPT ![s].pos = "watching"]
     \/ /\ sess' = [sess EXCEPT ![s].pos = "rejected"]
        /\ UNCHANGED <<calls, errorMessage>>
  /\ UNCHANGED <<db, localStream, callId, pcCurrent, platform, nSess, cands, scenario>>

(* ------------------------------------------------------- candidate relay *)
\* newPc.getLocalStreams(), line 118
GetLocalStreams(p, stream) == IF p = "senders" THEN <<stream>> ELSE << >>

\* line 118: localStream === newPc.getLocalStreams()[0] ? 'caller' : 'callee'
CandidateType(p, stream) ==
  LET streams == GetLocalStreams(p, stream)
      first == IF Len(streams) > 0 THEN streams[1] ELSE 0
  IN IF stream = first THEN "caller" ELSE "callee"

\* onicecandidate, lines 112-120, with a candidate: collection() throws on the
\* path calls//candidates, getLocalStreams throws where it does not exist,
\* otherwise the candidate is added with its type; or addDoc rejects and the
\* await throws out of the callback
IceCandidate(s) ==
  /\ sess[s].localDesc
  /\ sess[s].gathered < CandLimit
  /\ LET n == sess[s].gathered + 1
         p == platform[sess[s].app]
     IN \/ IF sess[s].cid = "" \/ p = "absent"
           THEN /\ sess' = [sess EXCEPT ![s].gathered = n]
                /\ UNCHANGED cands
           ELSE /\ sess' = [sess EXCEPT ![s].gathered = n, ![s].published = @ + 1]
                /\ cands' = [cands EXCEPT ![sess[s].cid] =
                               Append(@, [type |-> CandidateType(p, sess[s].stream), from |-> s, n |-> n])]
        \/ /\ AddDocMayReject
           /\ sess' = [sess EXCEPT ![s].gathered = n]
           /\ UNCHANGED cands
  /\ UNCHANGED <<db, localStream, callId, errorMessage, pcCurrent, platform, nSess, calls, scenario>>

\* onicecandidate, lines 112-113, with event.candidate null: nothing is done
IceEndOfCandidates(s) ==
  /\ sess[s].localDesc
  /\ UNCHANGED vars

\* a filter that lets the session's own type through
OwnType(role) == role

\* lines 180 and 226: the type a session's listener lets through
WantedType(role) == IF role = "caller" THEN "callee" ELSE "caller"

\* every document of the snapshot, as snapshot.docs would give
AllDocs(docs, seen) == docs

\* snapshot.docChanges(), lines 179 and 225: the documents added since the
\* snapshot this listener was given before
DocChanges(docs, seen) == SubSeq(docs, seen + 1, Len(docs))

\* lines 179-184 and 225-230: the addIceCandidate calls one snapshot causes
\* (each logged with the remote description newPc has then)
RECURSIVE AddIceCandidates(_, _, _, _)
AddIceCandidates(log, changes, wanted, rd) ==
  IF changes = << >> THEN log
  ELSE AddIceCandidates(
         IF Head(changes).type = wanted THEN Append(log, [e |-> Head(changes), rd |-> rd]) ELSE log,
         Tail(changes), wanted, rd)

\* the candidate listeners, lines 178-185 and 224-231: a snapshot of the
\* sub-collection is delivered after each addition (the first, empty one
\* changes nothing)
CandidateSnapshot(s) ==
  /\ sess[s].pos = "watching"
  /\ LET docs == cands[sess[s].id] IN
       /\ Len(docs) > sess[s].candSeen
       /\ sess' = [sess EXCEPT
            ![s].ice = AddIceCandidates(@, DocChanges(docs, sess[s].candSeen),
                                        WantedType(sess[s].role), RemoteState(s)),
            ![s].candSeen = Len(docs)]
  /\ UNCHANGED <<db, localStream, callId, errorMessage, pcCurrent, platform, nSess, calls, cands, scenario>>

(* --------------------------------------------------------- specification *)
Next ==
  \/ \E a \in Apps : SetupFirebase(a)
  \/ \E a \in Apps : StartCamera(a)
  \/ \E a \in Apps : CreateCallRefused(a)
  \/ \E a \in Apps : CreateCall(a)
  \/ \E s \in Sessions : CreateOfferResolved(s)
  \/ \E s \in Sessions : SetLocalDescriptionResolved(s)
  \/ \E s \in Sessions : CreateCallSetDocResolved(s)
  \/ \E s \in Sessions : CallSnapshot(s)
  \/ \E s \in Sessions : CallerSetRemoteDescriptionSettled(s)
  \/ \E a \in Apps : AnswerCallRefused(a)
  \/ \E a \in Apps : AnswerCall(a)
  \/ \E s \in Sessions : GetDocsResolved(s)
  \/ \E s \in Sessions : AnswerSetRemoteDescriptionResolved(s)
  \/ \E s \in Sessions : CreateAnswerResolved(s)
  \/ \E s \in Sessions : AnswerCallSetDocResolved(s)
  \/ \E s \in Sessions : IceCandidate(s)
  \/ \E s \in Sessions : IceEndOfCandidates(s)
  \/ \E s \in Sessions : CandidateSnapshot(s)

Spec == Init /\ [][Next]_vars

SpecOneCall == InitOneCall /\ [][Next]_vars

(* ---------------------------------------------------------------- claims *)
\* the candidate documents session s has been given so far whose type is not its own role
OppositeDelivered(s) ==
  LET Opposite(e) == e.type # sess[s].role
  IN IF sess[s].candSeen = 0 THEN << >>
     ELSE SelectSeq(SubSeq(cands[sess[s].id], 1, sess[s].candSeen), Opposite)

\* the candidates of the addIceCandidate calls of s, in call order
Applied(s) == [k \in 1..Len(sess[s].ice) |-> sess[s].ice[k].e]

\* the candidates newPc took: addIceCandidate rejects while there is no remote
\* description and is queued behind a setRemoteDescription that has not settled
Accepted(s) ==
  LET Taken(c) == c.rd # "none"
      taken == SelectSeq(sess[s].ice, Taken)
  IN [k \in 1..Len(taken) |-> taken[k].e]

\* C1: setRemoteDescription is invoked at most once on every session's peer
\* connection, however often the Call Record snapshot is delivered and however
\* the deliveries interleave with an earlier call's completion.
C1_SetRemoteDescriptionAtMostOnce ==
  \A s \in Sessions : sess[s].srdCalls <= 1

\* C2: every Candidate Entry in the channel is tagged with the role of the
\* session that published it: 'caller' for createCall, 'callee' for answerCall.
C2_EntryTaggedWithOwnRole ==
  \A c \in CallIds : \A i \in 1..Len(cands[c]) :
    cands[c][i].type = sess[cands[c][i].from].role

\* C3: no session passes to addIceCandidate an entry whose tag equals its own
\* role: the initiator applies only 'callee' entries, the responder only 'caller'.
C3_NoOwnRoleEntryApplied ==
  \A s \in Sessions : \A k \in 1..Len(sess[s].ice) :
    /\ sess[s].ice[k].e.type # sess[s].role
    /\ sess[s].role = "caller" => sess[s].ice[k].e.type = "callee"
    /\ sess[s].role = "callee" => sess[s].ice[k].e.type = "caller"

\* C3 witness: a listener was given an entry tagged with its session's own
\* role and applied nothing, and another session's listener has applied an entry
C3_Witness ==
  \E s, o \in Sessions :
    /\ sess[s].candSeen > 0 /\ sess[s].ice = << >>
    /\ \E i \in 1..sess[s].candSeen : cands[sess[s].id][i].type = sess[s].role
    /\ Len(sess[o].ice) > 0

\* C4: addIceCandidate is never invoked before the remote description of the
\* session has been applied (setRemoteDescription completed).
C4_NoCandidateBeforeRemoteDescription ==
  \A s \in Sessions : \A k \in 1..Len(sess[s].ice) : sess[s].ice[k].rd = "set"

\* C5: opposite-role candidates delivered before the remote description is set
\* are held and, once it is set, all applied in arrival order, each once: with
\* the remote description set, the candidates the connection took are exactly
\* the opposite-role candidates delivered, in order.
C5_EarlyCandidatesFlushedInOrder ==
  \A s \in Sessions : RemoteState(s) = "set" => Accepted(s) = OppositeDelivered(s)

\* C6: each opposite-role entry is applied at most once per session whatever
\* the listener is given again: the addIceCandidate calls are exactly the
\* opposite-role entries delivered, one call each, N for N entries.
C6_EachEntryAppliedOnce ==
  \A s \in Sessions :
    /\ Applied(s) = OppositeDelivered(s)
    /\ \A k, l \in 1..Len(sess[s].ice) : k # l => sess[s].ice[k].e # sess[s].ice[l].e

\* C6 witness: two entries were applied out of different snapshots (the remote
\* description differed), so the later snapshot held the earlier entry again
C6_Witness ==
  \E s \in Sessions : \E k, l \in 1..Len(sess[s].ice) :
    /\ k < l
    /\ sess[s].ice[k].rd # sess[s].ice[l].rd
    /\ sess[s].candSeen >= 2

\* session r, in another App, answered the offer that session i wrote, both
\* have registered their listeners, and both browsers have getLocalStreams
Paired(i, r) ==
  /\ sess[i].role = "caller" /\ sess[i].pos = "watching"
  /\ sess[r].role = "callee" /\ sess[r].pos = "watching"
  /\ sess[r].id = sess[i].id /\ sess[r].offer = i
  /\ sess[r].app # sess[i].app
  /\ platform[sess[i].app] # "absent" /\ platform[sess[r].app] # "absent"

\* every notification and event of session s has been delivered
Quiet(s) ==
  /\ sess[s].gathered = CandLimit
  /\ sess[s].candSeen = Len(cands[sess[s].id])
  /\ sess[s].srdCalls = sess[s].srdDone
  /\ sess[s].role = "caller" => sess[s].docSeen = calls[sess[s].id].ver

\* the connection of s took every candidate the connection of p discovered
ReceivedCandidatesOf(s, p) ==
  \A n \in 1..sess[p].gathered :
    \E k \in 1..Len(sess[s].ice) :
      /\ sess[s].ice[k].e.from = p /\ sess[s].ice[k].e.n = n
      /\ sess[s].ice[k].rd # "none"

\* C7: after createCall and an answerCall with the id of the record created,
\* once every notification and ICE event has been delivered both sessions have
\* their remote description applied and have received the peer's candidates.
C7_BothSidesNegotiated ==
  \A i, r \in Sessions :
    Paired(i, r) /\ Quiet(i) /\ Quiet(r) =>
      /\ RemoteState(i) = "set" /\ RemoteState(r) = "set"
      /\ ReceivedCandidatesOf(i, r)
      /\ ReceivedCandidatesOf(r, i)

\* C8: answerCall with an id that has no Call Record, or whose record has no
\* offer, surfaces the not-found error and stops: it never calls
\* setRemoteDescription, createAnswer or setLocalDescription, writes no answer
\* and registers no listener.
C8_UnknownCallIdStops ==
  \A s \in Sessions :
    sess[s].role = "callee" /\ sess[s].read # "" /\ (sess[s].read = "absent" \/ sess[s].offer = 0) =>
      /\ sess[s].pos = "notfound"
      /\ sess[s].err = "Call ID not found or call has no offer."
      /\ sess[s].srdCalls = 0 /\ ~sess[s].localDesc
      /\ sess[s].gathered = 0 /\ sess[s].ice = << >>
      /\ \A c \in CallIds : calls[c].answer # s

\* C8 witness: an answerCall whose id had no Call Record has returned
C8_Witness ==
  \E s \in Sessions : sess[s].read = "absent" /\ sess[s].pos = "notfound"

\* C9: building the offer is single-shot: of the createCall invocations of one
\* App only the first builds an offer and writes a Call Record.
C9_SecondCreateCallRefused ==
  \A a \in Apps :
    Cardinality({s \in Sessions : sess[s].app = a /\ sess[s].role = "caller"}) <= 1

\* C10: a Call Record that has an answer field also has an offer field.
C10_AnswerOnlyWithOffer ==
  \A c \in CallIds : calls[c].answer # 0 => calls[c].exists /\ calls[c].offer # 0

\* C10 witness: an answer has been written
C10_Witness ==
  \E c \in CallIds : calls[c].answer # 0

\* the sessions whose offer write to record c completed, and those whose
\* answer write did (the handler reaches its listeners only through the write)
OfferWrites(c) ==
  {s \in Sessions : sess[s].role = "caller" /\ sess[s].pos = "watching" /\ sess[s].id = c}

AnswerWrites(c) ==
  {s \in Sessions : sess[s].role = "callee" /\ sess[s].pos = "watching" /\ sess[s].id = c}

\* C11: a Call Record receives at most one offer write and at most one answer
\* write: a second answerCall for the same id, or a createCall that draws the
\* id of an existing record, does not write to the record.
C11_AtMostOneOfferAndAnswerWrite ==
  \A c \in CallIds :
    /\ Cardinality(OfferWrites(c)) <= 1
    /\ Cardinality(AnswerWrites(c)) <= 1

\* the messages the failed guards of createCall and answerCall surface
RefusalMessages ==
  {"Please start your camera before creating a call.",
   "Please start your camera and enter a Call ID to answer."}

\* C12: createCall without a capture stream, and answerCall without a capture
\* stream or with an empty call id, surface an error and change nothing else:
\* the step that surfaces the refusal creates no peer connection, writes no
\* Call Record or Candidate Entry, opens no watch and leaves the call id, and
\* no step creates a peer connection for an App that has no capture stream.
C12_RefusalChangesNothingElse ==
  [][\A a \in Apps :
       /\ (errorMessage'[a] # errorMessage[a] /\ errorMessage'[a] \in RefusalMessages) =>
            /\ nSess' = nSess /\ sess' = sess /\ pcCurrent' = pcCurrent
            /\ calls' = calls /\ cands' = cands /\ callId' = callId
       /\ localStream[a] = 0 =>
            /\ pcCurrent'[a] = pcCurrent[a] /\ callId'[a] = callId[a]
            /\ \A s \in Sessions : sess'[s].app = a => sess'[s] = sess[s]
    ]_vars

\* C12 witness: createCall was refused in an App without a capture stream,
\* which still has no peer connection and no call id, and answerCall was
\* refused in an App with a capture stream and an empty call id
C12_Witness ==
  \E a, b \in Apps :
    /\ errorMessage[a] = "Please start your camera before creating a call."
    /\ localStream[a] = 0 /\ pcCurrent[a] = 0 /\ callId[a] = ""
    /\ errorMessage[b] = "Please start your camera and enter a Call ID to answer."
    /\ db[b] /\ localStream[b] # 0 /\ callId[b] = "" /\ pcCurrent[b] = 0

\* a candidate's addDoc was rejected for session s: the collection path and
\* the type were computed, yet fewer entries were added than discovered
AppendRejected(s) ==
  /\ sess[s].cid # "" /\ platform[sess[s].app] # "absent"
  /\ sess[s].gathered > sess[s].published

\* a channel read or write of session s has failed
ChannelFailure(s) == sess[s].pos = "rejected" \/ AppendRejected(s)

\* C13: when a channel read or write of createCall or answerCall fails (offer
\* write, record lookup, answer write, candidate append), the failure is
\* surfaced through the session's error and the session stops as failed: it
\* has opened no watch and applies no description or candidate afterwards.
C13_ChannelFailureSurfacedAndFinal ==
  \A s \in Sessions :
    ChannelFailure(s) =>
      /\ sess[s].err # ""
      /\ sess[s].pos = "rejected"
      /\ sess[s].docSeen = -1 /\ sess[s].candSeen = 0 /\ sess[s].ice = << >>
      /\ sess[s].role = "caller" => sess[s].srdCalls = 0

\* C14: every Candidate Entry is in the candidate sub-collection of the Call
\* Record of the session that published it: the record whose id the same
\* createCall generated, or the record whose id was supplied to answerCall.
C14_EntryInOwnRecord ==
  \A c \in CallIds : \A i \in 1..Len(cands[c]) :
    sess[cands[c][i].from].id = c

\* C15: the answer write changes only the answer field (the offer field and
\* the Candidate Entries of the call are the same after it as before), and an
\* offer once written is never changed by a later operation on the record.
C15_AnswerWriteKeepsOfferAndCandidates ==
  [][\A c \in CallIds :
       /\ (calls'[c].answer # calls[c].answer /\ calls'[c].answer # 0) =>
            /\ calls'[c].offer = calls[c].offer
            /\ cands'[c] = cands[c]
       /\ calls[c].offer # 0 => calls'[c].offer = calls[c].offer
    ]_vars

\* the App has let go of the connection of session s: pc.current, line 109,
\* holds the connection of a later handler invocation. The code has no other
\* way to end a session: it never calls close() on a connection and drops
\* the unsubscribe functions onSnapshot returns (lines 165, 178, 224)
Released(s) == sess[s].role # "none" /\ pcCurrent[sess[s].app] # s

C17_StepsInOrder ==
  [][\A s \in Sessions :
       LET old == sess[s]
           new == sess'[s]
           opens == new.pos = "watching" /\ old.pos # "watching"
       IN
         /\ (new.role = "callee" /\ new.pos = "createAnswer" /\ old.pos # "createAnswer") =>
              new.srdDone >= 1
         /\ \A c \in CallIds :
              /\ (calls'[c].answer = s /\ calls[c].answer # s) =>
                   old.localDesc /\ old.srdDone >= 1
              /\ (calls'[c].offer = s /\ calls[c].offer # s) => old.localDesc
         /\ (opens /\ new.role = "callee") =>
              calls'[new.id].answer = s /\ calls[new.id].answer # s
         /\ (opens /\ new.role = "caller") =>
              calls'[new.id].offer = s /\ calls[new.id].offer # s
         /\ (new.docSeen # -1 \/ new.candSeen > 0) => new.pos = "watching"
    ]_vars

\* C17 witness: an initiator and a responder of its call have both gone
\* through every step and have had deliveries on their watches
C17_Witness ==
  \E i, r \in Sessions :
    /\ sess[i].role = "caller" /\ sess[i].pos = "watching" /\ sess[i].docSeen # -1
    /\ sess[r].role = "callee" /\ sess[r].pos = "watching" /\ sess[r].offer = i
    /\ calls[sess[r].id].answer = r /\ calls[sess[r].id].offer = i
    /\ sess[r].candSeen > 0

\* createOffer or createAnswer has been invoked on the connection of s
DescriptionBuilt(s) ==
  \/ sess[s].role = "caller"
  \/ sess[s].role = "callee" /\ (sess[s].localDesc \/ sess[s].pos = "createAnswer"
                                 \/ sess[s].pos = "setLocalDescription")

\* C18: in both roles the tracks of the local capture stream are attached to
\* the peer connection before createOffer or createAnswer is invoked on it: no
\* description is built on a connection that lacks a local track.
C18_TracksBeforeDescription ==
  \A s \in Sessions : DescriptionBuilt(s) => sess[s].tracks /\ sess[s].stream # 0

\* C18 witness: an initiator and a responder have each set a description
\* built on a connection that carries the tracks
C18_Witness ==
  \E i, r \in Sessions :
    /\ sess[i].role = "caller" /\ sess[i].localDesc /\ sess[i].tracks
    /\ sess[r].role = "callee" /\ sess[r].localDesc /\ sess[r].tracks

\* C19: an end-of-candidates event never causes a Candidate Entry to be
\* appended: the number of entries a session has appended equals the number
\* of its discovery events that carried a candidate.
C19_EntriesEqualCandidateEvents ==
  \A s \in Sessions : sess[s].published = sess[s].gathered

\* C20: however the entries are tagged, no session passes to addIceCandidate
\* on its connection a candidate that this same connection discovered and
\* published.
C20_NoOwnCandidateApplied ==
  \A s \in Sessions : \A k \in 1..Len(sess[s].ice) : sess[s].ice[k].e.from # s

====
